---- MODULE Spec2Model ----
(***************************************************************************)
(* Model of the payment and deposit workflow of src/src/app.js             *)
(* (POST /jobs/:job_id/pay, POST /balances/deposit/:userId) behind the     *)
(* getProfile middleware of src/unnamed/part_000.                          *)
(*                                                                         *)
(* The persistence store (Profile, Contract, Job tables) is the shared     *)
(* state.  Every request is an async function: it runs synchronously up to *)
(* its next `await` of a store operation, so one action of the model is    *)
(* "the store executes the awaited operation of request r, and r's         *)
(* continuation runs up to its next await (or its response)".  Requests in *)
(* flight interleave at these points.  A store operation may also throw,   *)
(* which the handlers' catch blocks answer with 500.                       *)
(*                                                                         *)
(* Money is counted in integer units; a job price is a multiple of 4 so    *)
(* that 25% of a total is an integer (amount > total * 0.25 is then        *)
(* 4 * amount > total).                                                    *)
(***************************************************************************)
EXTENDS Integers, FiniteSets, Sequences, TLC

\* ---------------------------------------------------------------- bounds
\* The paying client's initial balance is k * BalanceStep, k \in 0..MaxBalanceSteps.
MaxBalanceSteps == 2
\* Deposit amounts of the request body range over MinAmount..MaxAmount.
MaxAmount == 2

MinAmount == 0 - 1

\* ---------------------------------------------------------------- data
\* Two requests, each sent once; they may run one after the other or in flight
\* together, which is the case of the payment race.
Reqs == {1, 2}

\* Profile rows: 1 is a client, 2 a contractor, 3 another client.
ProfileIds == {1, 2, 3}
\* A profile_id header value that matches no Profile row.
UnknownProfileId == Cardinality(ProfileIds) + 1
\* The profile_id header: <<>> when absent, <<id>> when present.
NoHeader == <<>>
HeaderValues == {NoHeader} \cup {<<p>> : p \in ProfileIds \cup {UnknownProfileId}}

ProfileType(p) == IF p = 2 THEN "contractor" ELSE "client"

ContractIds == {1, 2}
\* A contract id of the path that matches no Contract row.
UnknownContractId == Cardinality(ContractIds) + 1
ContractStatuses == {"new", "in_progress", "terminated"}

\* Jobs 1 and 2 belong to contract 1, job 3 to contract 2.
JobIds == {1, 2, 3}
\* A job id of the path that matches no Job row.
UnknownJobId == Cardinality(JobIds) + 1
JobContract(j) == IF j = 3 THEN 2 ELSE 1
JobPrice(j) == IF j = 2 THEN 8 ELSE 4
BalanceStep == JobPrice(1)

\* Job.paid is a nullable boolean column.
PaidValues == {"null", "false", "true"}

NoProfile == [id |-> 0, type |-> "none", balance |-> 0]
NoJob == [id |-> 0, price |-> 0, ClientId |-> 0, ContractorId |-> 0]
NoContract == [id |-> 0, ClientId |-> 0, ContractorId |-> 0, status |-> "none"]

\* The :userId segment of the path is a string: its leading decimal digits (here
\* at most one id, <<>> when it starts with none) and what follows them.
UserIdPaths ==
    {[digits |-> <<p>>, rest |-> ""] : p \in ProfileIds}
        \cup {[digits |-> <<1>>, rest |-> "abc"], [digits |-> <<>>, rest |-> "abc"]}
NoUserId == [digits |-> <<>>, rest |-> ""]

\* NaN, which no profile id equals
NaN == 0

\* parseInt(userId): the integer of the leading digits, whatever follows them;
\* NaN when the string starts with no digit
ParseInt(str) == IF str.digits = <<>> THEN NaN ELSE str.digits[1]

VARIABLES
    profiles,   \* Profile table: id -> [type, balance]
    contracts,  \* Contract table: id -> [ClientId, ContractorId, status]
    jobs,       \* Job table: id -> [ContractId, price, paid, paymentDate]
    clock,      \* the wall clock read by new Date()
    req,        \* per request: position, inputs read so far, locals, response
    hist,       \* per request: history of what it saw and did (observer)
    ledger      \* observer: initial balances and the deposits answered 200

vars == <<profiles, contracts, jobs, clock, req, hist, ledger>>

IdleReq ==
    [pc |-> "idle", kind |-> "none", header |-> NoHeader, profile |-> NoProfile,
     jobId |-> 0, job |-> NoJob, userId |-> NoUserId, totalJobsToPay |-> 0,
     amount |-> 0, contractId |-> 0, contract |-> NoContract, status |-> 0]

SnapshotOf(ps, js) ==
    [balance |-> [p \in ProfileIds |-> ps[p].balance],
     paid |-> [j \in JobIds |-> js[j].paid],
     paymentDate |-> [j \in JobIds |-> js[j].paymentDate]]

IdleHist ==
    [before |-> SnapshotOf(profiles, jobs), after |-> SnapshotOf(profiles, jobs),
     alone |-> TRUE, writes |-> {}, failedAt |-> "none", doneBefore |-> {}]

Active(r) == req[r].pc \notin {"idle", "done"}

\* ---------------------------------------------------------------- store
RECURSIVE SumOver(_, _)
SumOver(f, S) ==
    IF S = {} THEN 0
    ELSE LET x == CHOOSE y \in S : TRUE IN f[x] + SumOver(f, S \ {x})

\* a lookup that falls back to the first row when the id matches none
FindProfileOrFirst(id) ==
    LET p == IF id \in ProfileIds THEN id ELSE 1
    IN [id |-> p, type |-> profiles[p].type, balance |-> profiles[p].balance]

\* Profile.findOne({ where: { id } }): the row, or NoProfile.
FindProfile(id) ==
    IF id \in ProfileIds
    THEN [id |-> id, type |-> profiles[id].type, balance |-> profiles[id].balance]
    ELSE NoProfile

\* Job.findByPk(jobId, { include: ['Contract'] }): the row joined with its contract.
FindJob(jobId) ==
    IF jobId \in JobIds
    THEN [id |-> jobId, price |-> jobs[jobId].price,
          ClientId |-> contracts[jobs[jobId].ContractId].ClientId,
          ContractorId |-> contracts[jobs[jobId].ContractId].ContractorId]
    ELSE NoJob

\* Contract.findOne({ where: { id } }): the row, or NoContract.
FindContract(id) ==
    IF id \in ContractIds
    THEN [id |-> id, ClientId |-> contracts[id].ClientId,
          ContractorId |-> contracts[id].ContractorId, status |-> contracts[id].status]
    ELSE NoContract

\* Profile.update({ balance: literal(`balance + delta`) }, { where: { id } })
AddBalance(ps, id, delta) ==
    [p \in ProfileIds |->
        IF p = id THEN [ps[p] EXCEPT !.balance = ps[p].balance + delta] ELSE ps[p]]

\* a debit computed from the balance getProfile read instead of in the store
DebitFromSnapshot(ps, profile, job) ==
    [p \in ProfileIds |->
        IF p = profile.id THEN [ps[p] EXCEPT !.balance = profile.balance - job.price]
        ELSE ps[p]]

\* the first Profile.update of the pay handler
DebitClient(ps, profile, job) == AddBalance(ps, profile.id, 0 - job.price)

\* a credit addressed to the contract's client instead of its contractor
CreditClientInstead(ps, job) == AddBalance(ps, job.ClientId, job.price)

\* the second Profile.update of the pay handler
CreditContractor(ps, job) == AddBalance(ps, job.ContractorId, job.price)

\* an update with no where clause: every job is marked
MarkPaidEveryJob(js, job, date) ==
    [j \in JobIds |-> [js[j] EXCEPT !.paid = "true", !.paymentDate = date]]

\* job.update({ paid: true, paymentDate: new Date() })
MarkPaid(js, job, date) ==
    [j \in JobIds |->
        IF j = job.id THEN [js[j] EXCEPT !.paid = "true", !.paymentDate = date]
        ELSE js[j]]

\* a where clause that leaves the contract's status out
CountsAsToPayAnyStatus(j, clientId) ==
    /\ jobs[j].paid = "null"
    /\ contracts[jobs[j].ContractId].ClientId = clientId

\* the where clause of Job.sum in the deposit handler
CountsAsToPay(j, clientId) ==
    /\ jobs[j].paid = "null"
    /\ contracts[jobs[j].ContractId].ClientId = clientId
    /\ contracts[jobs[j].ContractId].status = "in_progress"

\* Job.sum('price', ...): the sum, null (0 in the arithmetic that follows) for no row
TotalJobsToPay(clientId) ==
    SumOver([j \in JobIds |-> jobs[j].price],
            {j \in JobIds : CountsAsToPay(j, clientId)})

\* ---------------------------------------------------------------- checks
\* either party of the contract may pay
PayAuthorizedAnyParty(job, profile) ==
    job.ClientId = profile.id \/ job.ContractorId = profile.id

PayAuthorized(job, profile) == ~(job.ClientId # profile.id)

\* a balance equal to the price is refused too
InsufficientBalanceOrEqual(profile, job) == profile.balance <= job.price

InsufficientBalance(profile, job) == profile.balance < job.price

\* the caller's type is not checked
DepositAuthorizedAnyType(profile, userId) == ~(profile.id # ParseInt(userId))

DepositAuthorized(profile, userId) ==
    ~(profile.id # ParseInt(userId) \/ profile.type # "client")

\* only the contract's client may read it
ContractOfClientOnly(contract, profile) == ~(contract.ClientId # profile.id)

\* contract.ClientId !== profile.id && contract.ContractorId !== profile.id
ContractBelongsTo(contract, profile) ==
    ~(contract.ClientId # profile.id /\ contract.ContractorId # profile.id)

\* the boundary amount is refused too
ReachesMaxDeposit(depositAmount, totalJobsToPay) ==
    4 * depositAmount >= totalJobsToPay

\* depositAmount > totalJobsToPay * 0.25
ExceedsMaxDeposit(depositAmount, totalJobsToPay) ==
    4 * depositAmount > totalJobsToPay

\* ---------------------------------------------------------------- initial state
\* The tables as seeded: client 1 holds contract 1 (in progress) with contractor 2,
\* client 3 holds contract 2 with contractor 2; balances are not negative.
Init ==
    /\ \E k \in 0..MaxBalanceSteps :
        profiles = [p \in ProfileIds |->
            [type |-> ProfileType(p),
             balance |-> IF p = 1 THEN k * BalanceStep ELSE IF p = 3 THEN BalanceStep ELSE 0]]
    /\ \E s \in ContractStatuses :
        contracts = [c \in ContractIds |->
            IF c = 1 THEN [ClientId |-> 1, ContractorId |-> 2, status |-> "in_progress"]
            ELSE [ClientId |-> 3, ContractorId |-> 2, status |-> s]]
    /\ \E pd \in [JobIds -> PaidValues] :
        /\ pd[1] # "false" /\ pd[2] # "true" /\ pd[3] = "null"
        /\ jobs = [j \in JobIds |->
            [ContractId |-> JobContract(j), price |-> JobPrice(j), paid |-> pd[j],
             paymentDate |-> IF pd[j] = "true" THEN 1 ELSE 0]]
    /\ clock = 2
    /\ req = [r \in Reqs |-> IdleReq]
    /\ hist = [r \in Reqs |-> IdleHist]
    /\ ledger = [initial |-> [p \in ProfileIds |-> profiles[p].balance], deposited |-> 0]

\* ---------------------------------------------------------------- observer
\* The history after request r moved to record h: every other request in flight
\* has now seen a step of r between its own steps.
Observe(r, h) ==
    [q \in Reqs |->
        IF q = r THEN h
        ELSE IF Active(q) THEN [hist[q] EXCEPT !.alone = FALSE]
        ELSE hist[q]]

\* request r answered: remember the store as its response left it
Answered(h, ps, js) == [h EXCEPT !.after = SnapshotOf(ps, js)]

\* res.status(code).json(...)
Respond(rq, code) == [rq EXCEPT !.pc = "done", !.status = code]

\* ---------------------------------------------------------------- getProfile
\* A request arrives; getProfile reads the header and, if present, awaits findOne.
Receive(r, kind, header) ==
    /\ req[r].pc = "idle"
    /\ \A q \in Reqs : q < r => req[q].pc # "idle"
    /\ LET rq == [req[r] EXCEPT !.kind = kind, !.header = header]
           h == [IdleHist EXCEPT !.doneBefore = {q \in Reqs : req[q].pc = "done"}]
       IN IF header = NoHeader
          THEN /\ req' = [req EXCEPT ![r] = Respond(rq, 400)]
               /\ hist' = Observe(r, Answered(h, profiles, jobs))
          ELSE /\ req' = [req EXCEPT ![r] = [rq EXCEPT !.pc = "findProfile"]]
               /\ hist' = Observe(r, h)
    /\ UNCHANGED <<profiles, contracts, jobs, clock, ledger>>

\* a guard whose 404 lacks its return: it answers and still calls next()
ProfileNotFoundFallsThrough(r) ==
    /\ req[r].pc = "findProfile"
    /\ FindProfile(req[r].header[1]) = NoProfile
    /\ req' = [req EXCEPT ![r] = [req[r] EXCEPT !.status = 404,
            !.pc = IF req[r].kind = "pay" THEN "findJob"
                   ELSE IF req[r].kind = "deposit" THEN "sum" ELSE "findContract"]]
    /\ hist' = Observe(r, hist[r])
    /\ UNCHANGED <<profiles, contracts, jobs, clock, ledger>>

\* findOne found no row: 404, next() is not called.
ProfileNotFound(r) ==
    /\ req[r].pc = "findProfile"
    /\ FindProfile(req[r].header[1]) = NoProfile
    /\ req' = [req EXCEPT ![r] = Respond(req[r], 404)]
    /\ hist' = Observe(r, Answered(hist[r], profiles, jobs))
    /\ UNCHANGED <<profiles, contracts, jobs, clock, ledger>>

\* ---------------------------------------------------------------- POST /jobs/:job_id/pay
\* findOne found the profile: req.profile is set, next() enters the pay handler,
\* which awaits Job.findByPk(job_id).
PayBegin(r, jobId) ==
    /\ req[r].pc = "findProfile"
    /\ req[r].kind = "pay"
    /\ FindProfile(req[r].header[1]) # NoProfile
    /\ req' = [req EXCEPT ![r] = [req[r] EXCEPT
            !.profile = FindProfile(req[r].header[1]), !.jobId = jobId, !.pc = "findJob"]]
    /\ hist' = Observe(r, hist[r])
    /\ UNCHANGED <<profiles, contracts, jobs, clock, ledger>>

\* the checks with the funds check moved before the authorization check
PayCheckFundsFirst(r) ==
    /\ req[r].pc = "findJob"
    /\ LET job == FindJob(req[r].jobId)
           rq == [req[r] EXCEPT !.job = job]
       IN IF job = NoJob
          THEN /\ req' = [req EXCEPT ![r] = Respond(req[r], 404)]
               /\ hist' = Observe(r, Answered(hist[r], profiles, jobs))
          ELSE IF InsufficientBalance(req[r].profile, job)
          THEN /\ req' = [req EXCEPT ![r] = Respond(rq, 400)]
               /\ hist' = Observe(r, Answered(hist[r], profiles, jobs))
          ELSE IF ~PayAuthorized(job, req[r].profile)
          THEN /\ req' = [req EXCEPT ![r] = Respond(rq, 403)]
               /\ hist' = Observe(r, Answered(hist[r], profiles, jobs))
          ELSE /\ req' = [req EXCEPT ![r] = [rq EXCEPT !.pc = "debit"]]
               /\ hist' = Observe(r, hist[r])
    /\ UNCHANGED <<profiles, contracts, jobs, clock, ledger>>

\* findByPk returned: the three checks, then the first Profile.update is awaited.
PayCheck(r) ==
    /\ req[r].pc = "findJob"
    /\ LET job == FindJob(req[r].jobId)
           rq == [req[r] EXCEPT !.job = job]
       IN IF job = NoJob
          THEN /\ req' = [req EXCEPT ![r] = Respond(req[r], 404)]
               /\ hist' = Observe(r, Answered(hist[r], profiles, jobs))
          ELSE IF ~PayAuthorized(job, req[r].profile)
          THEN /\ req' = [req EXCEPT ![r] = Respond(rq, 403)]
               /\ hist' = Observe(r, Answered(hist[r], profiles, jobs))
          ELSE IF InsufficientBalance(req[r].profile, job)
          THEN /\ req' = [req EXCEPT ![r] = Respond(rq, 400)]
               /\ hist' = Observe(r, Answered(hist[r], profiles, jobs))
          ELSE /\ req' = [req EXCEPT ![r] = [rq EXCEPT !.pc = "debit"]]
               /\ hist' = Observe(r, hist[r])
    /\ UNCHANGED <<profiles, contracts, jobs, clock, ledger>>

\* a handler without the credit: after the debit, job.update is awaited
PayDebitSkipsCredit(r) ==
    /\ req[r].pc = "debit"
    /\ profiles' = DebitClient(profiles, req[r].profile, req[r].job)
    /\ req' = [req EXCEPT ![r].pc = "mark"]
    /\ hist' = Observe(r, [hist[r] EXCEPT !.writes = @ \cup {"debit"}])
    /\ UNCHANGED <<contracts, jobs, clock, ledger>>

\* the store applies balance - price to the client; the credit is awaited next
PayDebit(r) ==
    /\ req[r].pc = "debit"
    /\ profiles' = DebitClient(profiles, req[r].profile, req[r].job)
    /\ req' = [req EXCEPT ![r].pc = "credit"]
    /\ hist' = Observe(r, [hist[r] EXCEPT !.writes = @ \cup {"debit"}])
    /\ UNCHANGED <<contracts, jobs, clock, ledger>>

\* the store applies balance + price to the contractor; job.update is awaited next
PayCredit(r) ==
    /\ req[r].pc = "credit"
    /\ profiles' = CreditContractor(profiles, req[r].job)
    /\ req' = [req EXCEPT ![r].pc = "mark"]
    /\ hist' = Observe(r, [hist[r] EXCEPT !.writes = @ \cup {"credit"}])
    /\ UNCHANGED <<contracts, jobs, clock, ledger>>

\* the store marks the job paid; the handler answers 200
PayMark(r) ==
    /\ req[r].pc = "mark"
    /\ jobs' = MarkPaid(jobs, req[r].job, clock)
    /\ clock' = clock + 1
    /\ req' = [req EXCEPT ![r] = Respond(req[r], 200)]
    /\ hist' = Observe(r, Answered([hist[r] EXCEPT !.writes = @ \cup {"mark"}],
                                   profiles, jobs'))
    /\ UNCHANGED <<profiles, contracts, ledger>>

\* ---------------------------------------------------------------- POST /balances/deposit/:userId
\* findOne found the profile: next() enters the deposit handler, which checks the
\* caller against the path's userId and awaits Job.sum.
DepositBegin(r, userId) ==
    /\ req[r].pc = "findProfile"
    /\ req[r].kind = "deposit"
    /\ FindProfile(req[r].header[1]) # NoProfile
    /\ LET profile == FindProfile(req[r].header[1])
           rq == [req[r] EXCEPT !.profile = profile, !.userId = userId]
       IN IF ~DepositAuthorized(profile, userId)
          THEN /\ req' = [req EXCEPT ![r] = Respond(rq, 403)]
               /\ hist' = Observe(r, Answered(hist[r], profiles, jobs))
          ELSE /\ req' = [req EXCEPT ![r] = [rq EXCEPT !.pc = "sum"]]
               /\ hist' = Observe(r, hist[r])
    /\ UNCHANGED <<profiles, contracts, jobs, clock, ledger>>

\* Job.sum returned: the amount of the body is compared with 25% of the total,
\* then Profile.update is awaited.
DepositCheck(r, depositAmount) ==
    /\ req[r].pc = "sum"
    /\ LET totalJobsToPay == TotalJobsToPay(req[r].profile.id)
           rq == [req[r] EXCEPT !.totalJobsToPay = totalJobsToPay,
                                !.amount = depositAmount]
       IN IF ExceedsMaxDeposit(depositAmount, totalJobsToPay)
          THEN /\ req' = [req EXCEPT ![r] = Respond(rq, 400)]
               /\ hist' = Observe(r, Answered(hist[r], profiles, jobs))
          ELSE /\ req' = [req EXCEPT ![r] = [rq EXCEPT !.pc = "update"]]
               /\ hist' = Observe(r, hist[r])
    /\ UNCHANGED <<profiles, contracts, jobs, clock, ledger>>

\* the store applies balance + amount to the caller; the handler answers 200
DepositUpdate(r) ==
    /\ req[r].pc = "update"
    /\ profiles' = AddBalance(profiles, req[r].profile.id, req[r].amount)
    /\ req' = [req EXCEPT ![r] = Respond(req[r], 200)]
    /\ hist' = Observe(r, Answered([hist[r] EXCEPT !.writes = @ \cup {"deposit"}],
                                   profiles', jobs))
    /\ ledger' = [ledger EXCEPT !.deposited = @ + req[r].amount]
    /\ UNCHANGED <<contracts, jobs, clock>>

\* ---------------------------------------------------------------- GET /contracts/:id
\* findOne found the profile: next() enters the contract handler, which awaits
\* Contract.findOne(id).
ContractBegin(r, id) ==
    /\ req[r].pc = "findProfile"
    /\ req[r].kind = "contract"
    /\ FindProfile(req[r].header[1]) # NoProfile
    /\ req' = [req EXCEPT ![r] = [req[r] EXCEPT
            !.profile = FindProfile(req[r].header[1]), !.contractId = id,
            !.pc = "findContract"]]
    /\ hist' = Observe(r, hist[r])
    /\ UNCHANGED <<profiles, contracts, jobs, clock, ledger>>

\* findOne returned: 404 for no row, 403 for a stranger, else the contract
ContractCheck(r) ==
    /\ req[r].pc = "findContract"
    /\ LET contract == FindContract(req[r].contractId)
       IN IF contract = NoContract
          THEN req' = [req EXCEPT ![r] = Respond(req[r], 404)]
          ELSE IF ~ContractBelongsTo(contract, req[r].profile)
          THEN req' = [req EXCEPT ![r] = Respond(req[r], 403)]
          ELSE req' = [req EXCEPT ![r] = Respond([req[r] EXCEPT !.contract = contract], 200)]
    /\ hist' = Observe(r, Answered(hist[r], profiles, jobs))
    /\ UNCHANGED <<profiles, contracts, jobs, clock, ledger>>

\* ---------------------------------------------------------------- store errors
AwaitingStore ==
    {"findProfile", "findJob", "debit", "credit", "mark", "sum", "update", "findContract"}

\* the awaited store operation throws without effect: the catch block answers 500
StoreError(r) ==
    /\ req[r].pc \in AwaitingStore
    /\ req' = [req EXCEPT ![r] = Respond(req[r], 500)]
    /\ hist' = Observe(r, Answered([hist[r] EXCEPT !.failedAt = req[r].pc],
                                   profiles, jobs))
    /\ UNCHANGED <<profiles, contracts, jobs, clock, ledger>>

Next ==
    \/ \E r \in Reqs, kind \in {"pay", "deposit", "contract"}, header \in HeaderValues :
        Receive(r, kind, header)
    \/ \E r \in Reqs : ProfileNotFound(r)
    \/ \E r \in Reqs, jobId \in JobIds \cup {UnknownJobId} : PayBegin(r, jobId)
    \/ \E r \in Reqs : PayCheck(r)
    \/ \E r \in Reqs : PayDebit(r)
    \/ \E r \in Reqs : PayCredit(r)
    \/ \E r \in Reqs : PayMark(r)
    \/ \E r \in Reqs, userId \in UserIdPaths : DepositBegin(r, userId)
    \/ \E r \in Reqs, depositAmount \in MinAmount..MaxAmount : DepositCheck(r, depositAmount)
    \/ \E r \in Reqs : DepositUpdate(r)
    \/ \E r \in Reqs, id \in ContractIds \cup {UnknownContractId} : ContractBegin(r, id)
    \/ \E r \in Reqs : ContractCheck(r)
    \/ \E r \in Reqs : StoreError(r)

Spec == Init /\ [][Next]_vars

\* The store answers the operation request r awaits, with a result or an error,
\* and Node's event loop then runs r's continuation.
StoreAnswers(r) ==
    \/ ProfileNotFound(r)
    \/ \E jobId \in JobIds \cup {UnknownJobId} : PayBegin(r, jobId)
    \/ PayCheck(r)
    \/ PayDebit(r)
    \/ PayCredit(r)
    \/ PayMark(r)
    \/ \E userId \in UserIdPaths : DepositBegin(r, userId)
    \/ \E depositAmount \in MinAmount..MaxAmount : DepositCheck(r, depositAmount)
    \/ DepositUpdate(r)
    \/ \E id \in ContractIds \cup {UnknownContractId} : ContractBegin(r, id)
    \/ ContractCheck(r)
    \/ StoreError(r)

\* The initial states in which no job is paid yet and both contracts are in
\* progress; the client's balance ranges as in Init.
LiveInit ==
    /\ Init
    /\ \A c \in ContractIds : contracts[c].status = "in_progress"
    /\ \A j \in JobIds : jobs[j].paid = "null"

\* Requests arrive or not; every awaited store operation is answered.
FairSpec ==
    LiveInit /\ [][Next]_vars /\ \A r \in Reqs : WF_vars(StoreAnswers(r))

TypeOK ==
    /\ \A p \in ProfileIds : profiles[p].balance \in Int
    /\ \A r \in Reqs : req[r].status \in {0, 200, 400, 403, 404, 500}

\* ---------------------------------------------------------------- vocabulary of the properties
Done(r) == req[r].pc = "done"
IsPay(r) == req[r].kind = "pay"
IsDeposit(r) == req[r].kind = "deposit"

ClientOf(j) == contracts[jobs[j].ContractId].ClientId
ContractorOf(j) == contracts[jobs[j].ContractId].ContractorId

\* request r is a payJob call for an existing job made by the job's client
PayByClient(r) ==
    /\ IsPay(r)
    /\ req[r].jobId \in JobIds
    /\ req[r].header = <<ClientOf(req[r].jobId)>>

\* request r left the store as it found it (r ran with no other request between)
Untouched(r) == hist[r].after = hist[r].before

\* a store write of request r threw
WriteFailed(r) == hist[r].failedAt \in {"debit", "credit", "mark", "update"}

\* the total of the unpaid (paid is null) jobs of client c on in_progress
\* contracts, in the store as snapshot s shows it
OutstandingIn(s, c) ==
    SumOver([j \in JobIds |-> jobs[j].price],
            {j \in JobIds : /\ s.paid[j] = "null"
                            /\ ClientOf(j) = c
                            /\ contracts[jobs[j].ContractId].status = "in_progress"})

\* ---------------------------------------------------------------- C1
\* C1: a payJob request answered 200 that ran with no other request interleaved
\* leaves the client's balance at its balance before minus the job's price, the
\* contractor's at its balance before plus the price, and their sum unchanged.
C1_Conservation ==
    \A r \in Reqs :
        (IsPay(r) /\ Done(r) /\ req[r].status = 200 /\ hist[r].alone) =>
            LET j == req[r].jobId
                price == jobs[j].price
                b == hist[r].before.balance
                a == hist[r].after.balance
            IN /\ a[ClientOf(j)] = b[ClientOf(j)] - price
               /\ a[ContractorOf(j)] = b[ContractorOf(j)] + price
               /\ a[ClientOf(j)] + a[ContractorOf(j)] = b[ClientOf(j)] + b[ContractorOf(j)]

C1_Witness ==
    \E r \in Reqs :
        /\ IsPay(r) /\ Done(r) /\ req[r].status = 200 /\ hist[r].alone
        /\ hist[r].before.balance[1] = 2 * BalanceStep
        /\ req[r].jobId = 2

\* ---------------------------------------------------------------- C2
\* C2: when the job's client calls payJob twice in sequence on the same job, with
\* balance enough for both calls and the first answered 200, the second call
\* changes no balance: the client is debited and the contractor credited once.
C2_NoDoublePay ==
    \A r1, r2 \in Reqs :
        ( /\ r1 # r2
          /\ PayByClient(r1) /\ PayByClient(r2)
          /\ req[r1].jobId = req[r2].jobId
          /\ Done(r1) /\ Done(r2)
          /\ r1 \in hist[r2].doneBefore
          /\ req[r1].status = 200
          /\ hist[r1].failedAt = "none" /\ hist[r2].failedAt = "none"
          /\ hist[r1].before.balance[ClientOf(req[r1].jobId)]
                >= 2 * jobs[req[r1].jobId].price ) =>
            LET j == req[r1].jobId
            IN /\ hist[r2].after.balance = hist[r2].before.balance
               /\ profiles[ClientOf(j)].balance
                    = hist[r1].before.balance[ClientOf(j)] - jobs[j].price
               /\ profiles[ContractorOf(j)].balance
                    = hist[r1].before.balance[ContractorOf(j)] + jobs[j].price

\* ---------------------------------------------------------------- C3
\* C3: when two payJob requests of the job's client for the same job are in flight
\* together and the client's balance is exactly one job price, exactly one is
\* answered 200, the other writes nothing, and the client ends at balance 0.
C3_ConcurrentRace ==
    \A r1, r2 \in Reqs :
        ( /\ r1 # r2
          /\ PayByClient(r1) /\ PayByClient(r2)
          /\ req[r1].jobId = req[r2].jobId
          /\ Done(r1) /\ Done(r2)
          /\ r1 \notin hist[r2].doneBefore /\ r2 \notin hist[r1].doneBefore
          /\ hist[r1].failedAt = "none" /\ hist[r2].failedAt = "none"
          /\ hist[r1].before.balance[ClientOf(req[r1].jobId)] = jobs[req[r1].jobId].price
          /\ hist[r2].before.balance[ClientOf(req[r1].jobId)] = jobs[req[r1].jobId].price ) =>
            /\ \E w \in {r1, r2} :
                /\ req[w].status = 200
                /\ \A l \in {r1, r2} \ {w} : req[l].status # 200 /\ hist[l].writes = {}
            /\ profiles[ClientOf(req[r1].jobId)].balance = 0

\* ---------------------------------------------------------------- C4
\* C4: every Profile's balance is >= 0 in every reachable state.
C4_BalanceNonNegative == \A p \in ProfileIds : profiles[p].balance >= 0

\* ---------------------------------------------------------------- C5
\* C5: a payJob request answered 500 after a store write failed leaves both
\* balances and the job's paid flag as they were before the request.
C5_AllOrNothing ==
    \A r \in Reqs :
        (IsPay(r) /\ Done(r) /\ req[r].status = 500 /\ hist[r].alone) =>
            /\ hist[r].after.balance = hist[r].before.balance
            /\ hist[r].after.paid = hist[r].before.paid

\* ---------------------------------------------------------------- C6
\* C6: whenever no request is in progress and no store write has failed, the sum
\* of all balances is the initial sum plus the amounts of the deposits answered
\* 200; payments add nothing to it, interleaved with deposits or not.
C6_GlobalMoney ==
    ((\A r \in Reqs : ~Active(r)) /\ (\A r \in Reqs : ~WriteFailed(r))) =>
        SumOver([p \in ProfileIds |-> profiles[p].balance], ProfileIds)
            = SumOver(ledger.initial, ProfileIds) + ledger.deposited

C6_Witness ==
    \E r1, r2 \in Reqs :
        /\ IsPay(r1) /\ Done(r1) /\ req[r1].status = 200
        /\ IsDeposit(r2) /\ Done(r2) /\ req[r2].status = 200 /\ req[r2].amount > 0
        /\ req[r1].profile.id = req[r2].profile.id
        /\ ~hist[r1].alone /\ ~hist[r2].alone

\* ---------------------------------------------------------------- C7
\* the pay handler of request r has looked its job up and run its checks
PayChecked(r) ==
    /\ IsPay(r)
    /\ req[r].profile # NoProfile
    /\ req[r].jobId \in JobIds
    /\ req[r].pc \in {"debit", "credit", "mark", "done"}
    /\ hist[r].failedAt # "findJob"

\* C7: a payJob request for an existing job by a profile that is not the ClientId
\* of the job's contract is answered 403 and writes nothing: no balance, paid flag
\* or paymentDate is changed by it.
C7_PayUnauthorized ==
    \A r \in Reqs :
        (PayChecked(r) /\ req[r].profile.id # ClientOf(req[r].jobId)) =>
            /\ Done(r)
            /\ req[r].status = 403
            /\ hist[r].writes = {}
            /\ hist[r].alone => Untouched(r)

\* the contractor of the job's own contract and an unrelated client were both refused
C7_Witness ==
    \E r1, r2 \in Reqs :
        /\ PayChecked(r1) /\ req[r1].status = 403
        /\ req[r1].profile.id = ContractorOf(req[r1].jobId)
        /\ PayChecked(r2) /\ req[r2].status = 403
        /\ req[r2].profile.type = "client"
        /\ req[r2].profile.id # ClientOf(req[r2].jobId)
        /\ req[r2].profile.balance >= jobs[req[r2].jobId].price

\* ---------------------------------------------------------------- C8
\* C8: a payJob request of the job's client whose balance (as the guard resolved
\* it) is below the job's price is answered 400 and writes nothing; with a
\* balance at or above the price it passes the funds check: it goes on to the
\* writes and is never answered 400.
C8_InsufficientFunds ==
    \A r \in Reqs :
        (PayChecked(r) /\ req[r].profile.id = ClientOf(req[r].jobId)) =>
            IF req[r].profile.balance < jobs[req[r].jobId].price
            THEN /\ Done(r)
                 /\ req[r].status = 400
                 /\ hist[r].writes = {}
                 /\ hist[r].alone => Untouched(r)
            ELSE /\ req[r].status \in {0, 200, 500}
                 /\ Done(r) => (req[r].status = 200 \/ WriteFailed(r))

\* one client was refused for a balance below the price, another paid with a
\* balance equal to the price
C8_Witness ==
    \E r1, r2 \in Reqs :
        /\ PayChecked(r1) /\ req[r1].profile.id = ClientOf(req[r1].jobId)
        /\ req[r1].profile.balance < jobs[req[r1].jobId].price
        /\ req[r1].status = 400
        /\ PayChecked(r2) /\ req[r2].profile.id = ClientOf(req[r2].jobId)
        /\ req[r2].profile.balance = jobs[req[r2].jobId].price
        /\ req[r2].status = 200

\* ---------------------------------------------------------------- C9
\* the deposit handler of request r, called by the client the path names, has
\* summed the jobs to pay and compared the amount of the body with the cap
DepositChecked(r) ==
    /\ IsDeposit(r)
    /\ req[r].profile # NoProfile
    /\ req[r].profile.id = ParseInt(req[r].userId)
    /\ req[r].profile.type = "client"
    /\ req[r].pc \in {"update", "done"}
    /\ hist[r].failedAt # "sum"

C10_PositiveAmount ==
    \A r \in Reqs :
        DepositChecked(r) =>
            /\ req[r].amount <= 0 => (req[r].status # 200 /\ hist[r].writes = {})
            /\ (req[r].status = 200 /\ hist[r].alone) =>
                    hist[r].after.balance[req[r].profile.id]
                        >= hist[r].before.balance[req[r].profile.id]

\* ---------------------------------------------------------------- C11
\* C11: once a job is paid, no later step resets paid or changes paymentDate,
\* whatever further payJob requests address the job.
C11_PaidOnce ==
    [][\A j \in JobIds :
        jobs[j].paid = "true" =>
            /\ jobs'[j].paid = "true"
            /\ jobs'[j].paymentDate = jobs[j].paymentDate]_vars

\* ---------------------------------------------------------------- C12
\* C12: a payJob request writes (moves money, marks the job paid) only if the
\* job's contract has status in_progress.
C12_PayOnlyInProgress ==
    \A r \in Reqs :
        (PayChecked(r) /\ contracts[jobs[req[r].jobId].ContractId].status # "in_progress") =>
            /\ hist[r].writes = {}
            /\ req[r].status # 200

\* ---------------------------------------------------------------- C13
\* the deposit handler of request r has run its authorization check
DepositEntered(r) ==
    /\ IsDeposit(r)
    /\ req[r].profile # NoProfile
    /\ req[r].pc \in {"sum", "update", "done"}

\* C13: a deposit request gets past the authorization check, and so can succeed,
\* only if the requester's id is the userId of the path (read as an integer) and
\* the requester is a client; otherwise it is answered 403 and writes nothing.
\* A deposit answered 200 has credited the requester's own balance and no other.
C13_DepositAuthorization ==
    \A r \in Reqs :
        DepositEntered(r) =>
            IF req[r].profile.id = ParseInt(req[r].userId) /\ req[r].profile.type = "client"
            THEN /\ req[r].status # 403
                 /\ (req[r].status = 200 /\ hist[r].alone) =>
                        \A p \in ProfileIds \ {req[r].profile.id} :
                            hist[r].after.balance[p] = hist[r].before.balance[p]
            ELSE /\ Done(r)
                 /\ req[r].status = 403
                 /\ hist[r].writes = {}
                 /\ hist[r].alone => Untouched(r)

\* a client naming another profile and a contractor naming itself were both
\* refused
C13_Witness ==
    \E r1, r2 \in Reqs :
        /\ DepositEntered(r1) /\ req[r1].status = 403
        /\ req[r1].profile.type = "client"
        /\ req[r1].userId.digits # <<>> /\ ParseInt(req[r1].userId) # req[r1].profile.id
        /\ DepositEntered(r2) /\ req[r2].status = 403
        /\ req[r2].profile.type = "contractor"
        /\ ParseInt(req[r2].userId) = req[r2].profile.id

\* ---------------------------------------------------------------- C14
\* the route handler of request r has been entered (next() was called)
HandlerRun(r) ==
    \/ req[r].pc \in {"findJob", "debit", "credit", "mark", "sum", "update", "findContract"}
    \/ req[r].jobId # 0
    \/ req[r].userId # NoUserId
    \/ req[r].contractId # 0

\* C14: a request with no profile_id header is answered 400 and one whose
\* profile_id matches no Profile is answered 404, in both cases without the
\* handler being run or any record written; a handler runs only with the Profile
\* of the header's id attached to the request.
C14_Guard ==
    \A r \in Reqs :
        /\ (req[r].pc # "idle" /\ req[r].header = NoHeader) =>
                /\ Done(r) /\ req[r].status = 400
                /\ ~HandlerRun(r) /\ hist[r].writes = {}
                /\ hist[r].alone => Untouched(r)
        /\ ( /\ req[r].pc \notin {"idle", "findProfile"}
             /\ req[r].header # NoHeader
             /\ req[r].header[1] \notin ProfileIds
             /\ hist[r].failedAt # "findProfile" ) =>
                /\ Done(r) /\ req[r].status = 404
                /\ ~HandlerRun(r) /\ hist[r].writes = {}
                /\ hist[r].alone => Untouched(r)
        /\ HandlerRun(r) =>
                /\ req[r].header # NoHeader
                /\ req[r].profile # NoProfile
                /\ req[r].profile.id = req[r].header[1]
                /\ req[r].profile.type = profiles[req[r].header[1]].type

C14_Witness ==
    \E r1, r2 \in Reqs :
        /\ req[r1].header = NoHeader /\ req[r1].status = 400
        /\ req[r2].header = <<UnknownProfileId>> /\ req[r2].status = 404

\* ---------------------------------------------------------------- C15
\* the total of the jobs of client c whose paid is not true (null or false
\* alike) on in_progress contracts, in the store as snapshot s shows it
OutstandingNotTrueIn(s, c) ==
    SumOver([j \in JobIds |-> jobs[j].price],
            {j \in JobIds : /\ s.paid[j] # "true"
                            /\ ClientOf(j) = c
                            /\ contracts[jobs[j].ContractId].status = "in_progress"})

\* C15: the outstanding total the deposit cap is computed from counts every job
\* of the requester on an in_progress contract whose paid is not true, a job
\* with paid = false as one with paid = null.
C15_OutstandingNotTrue ==
    \A r \in Reqs :
        (DepositChecked(r) /\ hist[r].alone) =>
            req[r].totalJobsToPay = OutstandingNotTrueIn(hist[r].before, req[r].profile.id)

\* ---------------------------------------------------------------- C16
\* the contract handler of request r has answered after its lookup
ContractChecked(r) ==
    /\ req[r].kind = "contract"
    /\ req[r].profile # NoProfile
    /\ Done(r)
    /\ hist[r].failedAt = "none"

\* C16: GET /contracts/:id answers with the contract exactly when the requester
\* is its ClientId or ContractorId, 403 for any other profile and 404 for an id
\* that matches no contract, and writes nothing.
C16_ContractRead ==
    \A r \in Reqs :
        /\ req[r].kind = "contract" =>
                /\ hist[r].writes = {}
                /\ (Done(r) /\ hist[r].alone) => Untouched(r)
        /\ ContractChecked(r) =>
                IF req[r].contractId \notin ContractIds
                THEN req[r].status = 404 /\ req[r].contract = NoContract
                ELSE IF req[r].profile.id \in {contracts[req[r].contractId].ClientId,
                                               contracts[req[r].contractId].ContractorId}
                THEN /\ req[r].status = 200
                     /\ req[r].contract.id = req[r].contractId
                     /\ req[r].contract.status = contracts[req[r].contractId].status
                ELSE req[r].status = 403 /\ req[r].contract = NoContract

\* the contractor read its contract and a client of another contract was refused
C16_Witness ==
    \E r1, r2 \in Reqs :
        /\ ContractChecked(r1) /\ req[r1].status = 200
        /\ req[r1].profile.id = contracts[req[r1].contractId].ContractorId
        /\ ContractChecked(r2) /\ req[r2].status = 403
        /\ req[r2].contractId = req[r1].contractId

\* ---------------------------------------------------------------- C17
\* the pay handler of request r has had the answer of its job lookup
PayLookedUp(r) ==
    /\ IsPay(r)
    /\ req[r].profile # NoProfile
    /\ req[r].pc \in {"debit", "credit", "mark", "done"}
    /\ hist[r].failedAt # "findJob"

\* C17: payJob decides the job lookup first, then authorization, then funds: an
\* unknown job is answered 404 whoever calls, an existing job called by another
\* profile than its client 403 whatever the caller's balance, 400 goes only to
\* the job's own client, and no write is issued unless all three checks passed.
C17_CheckOrder ==
    \A r \in Reqs :
        PayLookedUp(r) =>
            /\ req[r].jobId \notin JobIds =>
                    Done(r) /\ req[r].status = 404 /\ hist[r].writes = {}
            /\ (req[r].jobId \in JobIds /\ req[r].profile.id # ClientOf(req[r].jobId)) =>
                    Done(r) /\ req[r].status = 403 /\ hist[r].writes = {}
            /\ req[r].status = 400 =>
                    /\ req[r].jobId \in JobIds
                    /\ req[r].profile.id = ClientOf(req[r].jobId)
                    /\ req[r].profile.balance < jobs[req[r].jobId].price
            /\ (hist[r].writes # {} \/ req[r].pc \in {"debit", "credit", "mark"}) =>
                    /\ req[r].jobId \in JobIds
                    /\ req[r].profile.id = ClientOf(req[r].jobId)
                    /\ req[r].profile.balance >= jobs[req[r].jobId].price

\* a caller that is not the job's client and has less than the price got 403,
\* and a caller that is no client of any job got 404 for an unknown job
C17_Witness ==
    \E r1, r2 \in Reqs :
        /\ PayLookedUp(r1) /\ req[r1].jobId \in JobIds
        /\ req[r1].profile.id # ClientOf(req[r1].jobId)
        /\ req[r1].profile.balance < jobs[req[r1].jobId].price
        /\ req[r1].status = 403
        /\ PayLookedUp(r2) /\ req[r2].jobId = UnknownJobId
        /\ req[r2].profile.type = "contractor"
        /\ req[r2].status = 404

\* ---------------------------------------------------------------- C18
\* C18: when the requesting client has no unpaid job on an in_progress contract
\* the total and the cap are 0, and a deposit of any positive amount is answered
\* 400 and leaves the balances unchanged.
C18_NoOutstandingNoDeposit ==
    \A r \in Reqs :
        ( /\ DepositChecked(r) /\ hist[r].alone
          /\ OutstandingIn(hist[r].before, req[r].profile.id) = 0
          /\ req[r].amount > 0 ) =>
            /\ req[r].totalJobsToPay = 0
            /\ Done(r)
            /\ req[r].status = 400
            /\ hist[r].writes = {}
            /\ Untouched(r)

\* a client whose only contract is not in progress was refused a deposit of 1
C18_Witness ==
    \E r \in Reqs :
        /\ DepositChecked(r) /\ hist[r].alone
        /\ \E j \in JobIds :
            /\ ClientOf(j) = req[r].profile.id
            /\ hist[r].before.paid[j] = "null"
            /\ contracts[jobs[j].ContractId].status # "in_progress"
        /\ OutstandingIn(hist[r].before, req[r].profile.id) = 0
        /\ req[r].amount = 1
        /\ req[r].status = 400

\* ---------------------------------------------------------------- C19
\* C19: payJob writes the debit, then the credit, then paid/paymentDate, and
\* answers 200 only after all three: a request that marked its job paid has
\* applied its debit and its credit, and one answered 200 has marked the job.
C19_WriteOrder ==
    \A r \in Reqs :
        IsPay(r) =>
            /\ "credit" \in hist[r].writes => "debit" \in hist[r].writes
            /\ "mark" \in hist[r].writes => {"debit", "credit"} \subseteq hist[r].writes
            /\ req[r].pc = "credit" => hist[r].writes = {"debit"}
            /\ req[r].pc = "mark" => hist[r].writes = {"debit", "credit"}
            /\ req[r].status = 200 =>
                    /\ hist[r].writes = {"debit", "credit", "mark"}
                    /\ jobs[req[r].jobId].paid = "true"
            /\ ("mark" \in hist[r].writes /\ hist[r].alone) =>
                    LET j == req[r].jobId
                        b == hist[r].before.balance
                        a == hist[r].after.balance
                    IN /\ a[ClientOf(j)] = b[ClientOf(j)] - jobs[j].price
                       /\ a[ContractorOf(j)] = b[ContractorOf(j)] + jobs[j].price
                       /\ hist[r].after.paid[j] = "true"
                       /\ req[r].status = 200

\* one payment was answered 200 and another stopped at a failed job.update
C19_Witness ==
    \E r1, r2 \in Reqs :
        /\ IsPay(r1) /\ req[r1].status = 200
        /\ IsPay(r2) /\ hist[r2].failedAt = "mark"
        /\ hist[r2].writes = {"debit", "credit"}

\* ---------------------------------------------------------------- C20
\* C20: a step of a payJob request changes at most the balance of the calling
\* client, the balance of the contractor of the job's contract, and paid and
\* paymentDate of the addressed job; a step of a deposit request at most the
\* balance of the requester; no step changes a price, a job's contract, a
\* profile's type or a contract.
C20_Frame ==
    [][\A r \in Reqs :
        req'[r] # req[r] =>
            /\ contracts' = contracts
            /\ \A j \in JobIds :
                jobs'[j].price = jobs[j].price /\ jobs'[j].ContractId = jobs[j].ContractId
            /\ \A p \in ProfileIds : profiles'[p].type = profiles[p].type
            /\ IF req'[r].kind = "pay"
               THEN /\ \A p \in ProfileIds :
                        profiles'[p] # profiles[p] =>
                            /\ req[r].jobId \in JobIds
                            /\ p \in {req[r].profile.id, ContractorOf(req[r].jobId)}
                    /\ \A j \in JobIds : jobs'[j] # jobs[j] => j = req[r].jobId
               ELSE IF req'[r].kind = "deposit"
               THEN /\ \A p \in ProfileIds :
                        profiles'[p] # profiles[p] => p = req[r].profile.id
                    /\ jobs' = jobs
               ELSE profiles' = profiles /\ jobs' = jobs]_vars

\* a payment and a deposit of a non-zero amount have both been applied
C20_Witness ==
    \E r1, r2 \in Reqs :
        /\ IsPay(r1) /\ req[r1].status = 200
        /\ hist[r1].before.paid[req[r1].jobId] = "null"
        /\ IsDeposit(r2) /\ req[r2].status = 200 /\ req[r2].amount > 0

\* ---------------------------------------------------------------- C21
ResponseCodes == {200, 400, 403, 404, 500}

\* request r is answered exactly when it is over, with one of the five codes,
\* and with 500 exactly when a store operation of it threw
AnsweredOnce(r) ==
    /\ req[r].status # 0 <=> Done(r)
    /\ Done(r) => req[r].status \in ResponseCodes
    /\ req[r].status = 500 <=> hist[r].failedAt # "none"
    /\ (Done(r) /\ req[r].profile = NoProfile) => ~HandlerRun(r)

\* C21: when every awaited store operation is answered, every request that
\* arrived is eventually answered; it is answered once (the answer is never
\* followed by another step of the request), with 200, 400, 403, 404 or 500, 500
\* exactly when a store operation failed, and a request the guard answered never
\* entered its handler.
C21_OneResponse ==
    /\ [](\A r \in Reqs : AnsweredOnce(r))
    /\ [][\A r \in Reqs : Done(r) => req'[r] = req[r]]_vars
    /\ \A r \in Reqs : (req[r].pc # "idle") ~> Done(r)

\* a payment answered 200 beside a deposit answered 500 for a failed update
C21_Witness ==
    \E r1, r2 \in Reqs :
        /\ IsPay(r1) /\ Done(r1) /\ req[r1].status = 200
        /\ IsDeposit(r2) /\ Done(r2) /\ req[r2].status = 500
        /\ hist[r2].failedAt = "update"

====
